---- MODULE Spec2Model ----
(***************************************************************************)
(* Model of restful/views.py: the per-action permission selection of the   *)
(* Pool, Booking, User, Rating and FileUpload view sets, the translation   *)
(* of IntegrityError into client errors, and the owner-scoped listings.    *)
(* The models, serializers and restful.permissions.IsOwner are imported by *)
(* views.py but are not part of the modelled file; what they do is taken   *)
(* from the specification of the repository.                               *)
(***************************************************************************)
EXTENDS Integers, Sequences, FiniteSets, Bags, TLC

(***************************************************************************)
(* Bounds of the model.                                                    *)
(***************************************************************************)
\* number of Booking, Rating and FileUpload rows the database holds, the
\* inserts in flight counted: where every view set is served or pools are
\* deleted, and where Bookings and Ratings are created and listed
FewRows == 1
MaxRows == 2
\* number of requests that can be between two database accesses at once
MaxInflight == 2
\* page size of the paginator
PageSize == 1
\* largest page number a caller asks for
MaxPage == 2

(***************************************************************************)
(* Identities.  request.user is AnonymousUser or a stored User.            *)
(***************************************************************************)
Anon == "AnonymousUser"
NoUser == "None"
UserIds == {"admin", "u1"}
InitialUsers == {"admin"}
IsStaff(u) == u = "admin"
PoolSlugs == {"p1", "p2"}
RatingValues == {1, 2}
FileIds == {"f1"}
\* the page a request asks for; NoPage when paginate_queryset returns None
NoPage == 0
Pages == 0..MaxPage

(***************************************************************************)
(* Status codes named in views.py.                                         *)
(***************************************************************************)
HTTP_201_CREATED == 201
HTTP_400_BAD_REQUEST == 400
HTTP_401_UNAUTHORIZED == 401

(***************************************************************************)
(* Permission classes (rest_framework.permissions and restful.permissions) *)
(***************************************************************************)
AllowAny == "AllowAny"
IsAdminUser == "IsAdminUser"
IsAuthenticated == "IsAuthenticated"
IsOwner == "IsOwner"

\* IsOwner.has_permission: the view-level check made before the handler runs.
\* recent_bookings and user_ratings carry their own AnonymousUser test, so the
\* view-level check lets every caller through.
IsOwnerHasPermission(caller) == TRUE

\* IsOwner.has_object_permission: the acting identity is the record's user.
IsOwnerHasObjectPermission(caller, owner) == caller = owner

\* permission.has_permission(request, view)
HasPermission(perm, caller) ==
    CASE perm = AllowAny -> TRUE
      [] perm = IsAdminUser -> caller # Anon /\ IsStaff(caller)
      [] perm = IsAuthenticated -> caller # Anon
      [] perm = IsOwner -> IsOwnerHasPermission(caller)

\* permission.has_object_permission(request, view, obj)
HasObjectPermission(perm, caller, owner) ==
    IF perm = IsOwner THEN IsOwnerHasObjectPermission(caller, owner) ELSE TRUE

(***************************************************************************)
(* get_permissions of each view set.                                       *)
(***************************************************************************)
PoolActions == {"list", "retrieve", "create", "update", "partial_update", "destroy"}
BookingActions == PoolActions \cup {"recent_bookings"}
RatingActions == PoolActions \cup {"user_ratings"}
UserActions == {"list", "retrieve"}

\* a variant that leaves 'update' out of the admin-only actions
PoolGetPermissionsWithoutUpdate(action) ==
    IF action \in {"create", "partial_update", "destroy"}
    THEN IsAdminUser
    ELSE AllowAny

PoolGetPermissions(action) ==
    IF action \in {"create", "update", "partial_update", "destroy"}
    THEN IsAdminUser
    ELSE AllowAny

\* a variant that gives 'list' the rule of 'create'
BookingGetPermissionsListAuthenticated(action) ==
    IF action \in {"list", "create"} THEN IsAuthenticated ELSE IsOwner

BookingGetPermissions(action) ==
    IF action = "list" THEN IsAdminUser
    ELSE IF action = "create" THEN IsAuthenticated
    ELSE IsOwner

UserGetPermissions(action) ==
    IF action = "list" THEN IsAdminUser ELSE AllowAny

\* a variant that chains the tests with elif
RatingGetPermissionsElif(action) ==
    IF action = "create" THEN IsAuthenticated
    ELSE IF action = "list" THEN IsAdminUser
    ELSE IsOwner

\* Two independent statements: the first if assigns for 'create', the second
\* if/else assigns again for every action.
RatingGetPermissions(action) ==
    LET first == IF action = "create" THEN IsAuthenticated ELSE "unassigned"
        second == IF action = "list" THEN IsAdminUser ELSE IsOwner
    IN second

FileUploadPermissions(action) == IsAdminUser

RegisterPermissions == AllowAny

(***************************************************************************)
(* Responses.                                                              *)
(***************************************************************************)
Response(status, shape, key, text, items, exc, via) ==
    [status |-> status, shape |-> shape, key |-> key, text |-> text,
     items |-> items, count |-> 0, next |-> 0, previous |-> 0,
     exc |-> exc, via |-> via]

\* APIView.permission_denied: no successful authentication gives
\* NotAuthenticated, an authenticated caller gets PermissionDenied.
PermissionDenied(caller) ==
    IF caller = Anon THEN "NotAuthenticated" ELSE "PermissionDenied"

\* APIView.handle_exception, reached through super().handle_exception(exc):
\* API exceptions become their own status, anything else is a server error.
SuperHandleException(exc) ==
    Response(CASE exc = "NotAuthenticated" -> 401
               [] exc = "PermissionDenied" -> 403
               [] exc = "Http404" -> 404
               [] exc = "ValidationError" -> 400
               [] OTHER -> 500,
             "dict", "detail", exc, <<>>, exc, "generic")

\* IntegrityError as the database raises it: for a second row with a unique
\* key, and for a row whose foreign key has no target
UniqueViolation == "IntegrityError: UNIQUE constraint failed"
ForeignKeyViolation == "IntegrityError: FOREIGN KEY constraint failed"

\* isinstance(exc, IntegrityError)
IsIntegrityError(exc) == exc \in {UniqueViolation, ForeignKeyViolation}

\* a variant without the IntegrityError branch
BookingHandleExceptionUntranslated(exc) == SuperHandleException(exc)

\* a variant without the isinstance test
BookingHandleExceptionAlways(exc) ==
    Response(HTTP_400_BAD_REQUEST, "dict", "Integrity error",
             "You have already booked this pool." \o "Request an update if required",
             <<>>, exc, "translator")

BookingHandleException(exc) ==
    IF IsIntegrityError(exc)
    THEN LET error == "You have already booked this pool." \o
                      "Request an update if required"
         IN Response(HTTP_400_BAD_REQUEST, "dict", "Integrity error", error,
                     <<>>, exc, "translator")
    ELSE SuperHandleException(exc)

RatingHandleException(exc) ==
    IF IsIntegrityError(exc)
    THEN LET error == "Already rated! request update to make changes"
         IN Response(HTTP_400_BAD_REQUEST, "dict", "Integrity Error", error,
                     <<>>, exc, "translator")
    ELSE SuperHandleException(exc)

\* the view sets that do not override handle_exception
HandleException(kind, exc) ==
    CASE kind = "Booking" -> BookingHandleException(exc)
      [] kind = "Rating" -> RatingHandleException(exc)
      [] OTHER -> SuperHandleException(exc)

(***************************************************************************)
(* State: the stored rows of each model, the bag of requests that are      *)
(* between two database accesses (a create whose serializer is valid and   *)
(* whose insert is still to come, an update or destroy that has fetched    *)
(* its object and has not yet saved or deleted it), and the request the    *)
(* latest step answered, with its response.  Nothing in views.py holds the *)
(* two accesses of a request together, so other requests are served in     *)
(* between.                                                                *)
(*                                                                         *)
(* created_at is kept as the rank of a row among the rows of its table:    *)
(* timezone.now() at an insert is later than every created_at stored, and  *)
(* order_by('-created_at') reads nothing but the order of the stamps.      *)
(* updated_at is not kept; updated_by is.                                  *)
(***************************************************************************)
VARIABLES users, pools, bookings, ratings, files, inflight, last

vars == <<users, pools, bookings, ratings, files, inflight, last>>
stores == <<users, pools, bookings, ratings, files>>

Callers == users \cup {Anon}

Target(user, pool) == [user |-> user, pool |-> pool]

EmptyResponse == Response(0, "none", "", "", <<>>, "", "none")

Request(kind, action, caller, payload, perm, decision, resp) ==
    [kind |-> kind, action |-> action, caller |-> caller, payload |-> payload,
     page |-> NoPage, perm |-> perm, decision |-> decision, resp |-> resp]

\* no request answered: the value of last before the first answer, and after
\* a step that answers nothing because its request is still being served
NoRequest == Request("", "", NoUser, NoUser, "", "", EmptyResponse)

\* check_permissions / check_object_permissions failed: the exception goes
\* through the view's handle_exception
Deny(kind, action, caller, payload, perm) ==
    Request(kind, action, caller, payload, perm, "deny",
            HandleException(kind, PermissionDenied(caller)))

Allow(kind, action, caller, payload, perm, resp) ==
    Request(kind, action, caller, payload, perm, "allow", resp)

Raise(kind, action, caller, payload, perm, exc) ==
    Allow(kind, action, caller, payload, perm, HandleException(kind, exc))

Min(a, b) == IF a < b THEN a ELSE b

WriteActions == {"update", "partial_update", "destroy"}

\* a request between its two database accesses.  user and pool are the key
\* of the row it is about (pool holds the slug of a Pool and the id of a
\* FileUpload); row tells which row the fetched instance was read from, and
\* ref which Pool row a Booking or Rating refers to: 0 is the row stored now,
\* a positive number a row deleted since (one number per deleted row).
InFlight(kind, action, caller, payload, user, pool, value) ==
    [kind |-> kind, action |-> action, caller |-> caller, payload |-> payload,
     user |-> user, pool |-> pool, value |-> value, row |-> 0, ref |-> 0]

\* the inserts on their way
Inserts == {r \in BagToSet(inflight) : r.action = "create"}

RECURSIVE SumCopies(_, _)
SumCopies(B, S) ==
    IF S = {} THEN 0
    ELSE LET r == CHOOSE x \in S : TRUE
         IN CopiesIn(r, B) + SumCopies(B, S \ {r})

\* the rows stored that reference a pool or a file, and the inserts on their way
RowCount ==
    Cardinality(bookings) + Cardinality(ratings) + Cardinality(files)
    + SumCopies(inflight, Inserts)

\* r holds an instance of the row of kind with the key t
Holds(r, kind, t) ==
    /\ r.kind = kind /\ r.action \in WriteActions
    /\ r.pool = t.pool
    /\ kind \in {"Booking", "Rating"} => r.user = t.user

\* r is about a Booking or Rating of the pool
Refers(r, slug) ==
    r.kind \in {"Booking", "Rating"} /\ r.action # "destroy" /\ r.pool = slug

\* a number no request in flight knows a deleted row of this key by
FreshLabel(B, kind, t) ==
    CHOOSE n \in 1..(BagCardinality(B) + 1) :
        /\ \A r \in BagToSet(B) :
              /\ Holds(r, kind, t) => r.row # n
              /\ (kind = "Pool" /\ Refers(r, t.pool)) => r.ref # n
        /\ \A m \in 1..(n - 1) :
              \E r \in BagToSet(B) :
                 \/ Holds(r, kind, t) /\ r.row = m
                 \/ kind = "Pool" /\ Refers(r, t.pool) /\ r.ref = m

\* the requests in flight after the row of kind with key t is deleted: the
\* instances read from it, and the references to it, are of a deleted row
Deleted(B, kind, t) ==
    LET n == FreshLabel(B, kind, t)
        f(r) == IF Holds(r, kind, t) /\ r.row = 0 THEN [r EXCEPT !.row = n]
                ELSE IF kind = "Pool" /\ Refers(r, t.pool) /\ r.ref = 0
                THEN [r EXCEPT !.ref = n]
                ELSE r
        S == BagToSet(B)
    IN IF S = {} THEN B
       ELSE [x \in {f(r) : r \in S} |-> SumCopies(B, {r \in S : f(r) = x})]

RECURSIVE DeletedAll(_, _, _)
DeletedAll(B, kind, rows) ==
    IF rows = {} THEN B
    ELSE LET x == CHOOSE r \in rows : TRUE
         IN DeletedAll(Deleted(B, kind, [user |-> x.user, pool |-> x.pool]),
                       kind, rows \ {x})

\* the requests in flight after the deleted row n of kind with key t is
\* inserted again
Restored(B, kind, t, n) ==
    LET f(r) == IF Holds(r, kind, t) /\ r.row = n THEN [r EXCEPT !.row = 0]
                ELSE IF kind = "Pool" /\ Refers(r, t.pool) /\ r.ref = n
                THEN [r EXCEPT !.ref = 0]
                ELSE r
        S == BagToSet(B)
    IN IF S = {} THEN B
       ELSE [x \in {f(r) : r \in S} |-> SumCopies(B, {r \in S : f(r) = x})]

\* created_at of the next insert into a table
NextStamp(rows) ==
    IF rows = {} THEN 1
    ELSE 1 + (CHOOSE n \in {r.createdAt : r \in rows} :
                 \A r \in rows : r.createdAt <= n)

\* the rows left after a delete, their stamps again the ranks 1..n
Compact(rows) ==
    {[r EXCEPT !.createdAt = Cardinality({o \in rows : o.createdAt <= r.createdAt})] :
        r \in rows}

\* order_by('-created_at')
RECURSIVE OrderByCreatedAtDesc(_)
OrderByCreatedAtDesc(rows) ==
    IF rows = {} THEN <<>>
    ELSE LET newest == CHOOSE r \in rows : \A o \in rows : o.createdAt <= r.createdAt
         IN <<newest>> \o OrderByCreatedAtDesc(rows \ {newest})

\* a variant that does not filter
FilterByUserUnfiltered(rows, user) == rows

\* objects.filter(user=request.user)
FilterByUser(rows, user) == {r \in rows : r.user = user}

\* PageNumberPagination: the number of pages of n rows (an empty first page exists)
NumPages(n) == IF n = 0 THEN 1 ELSE (n + PageSize - 1) \div PageSize

\* the rows of one page
PageOf(qs, page) == SubSeq(qs, (page - 1) * PageSize + 1, Min(page * PageSize, Len(qs)))

\* get_paginated_response: {count, next, previous, results}
GetPaginatedResponse(qs, page) ==
    [Response(200, "envelope", "results", "", PageOf(qs, page), "", "handler")
       EXCEPT !.count = Len(qs),
              !.next = IF page < NumPages(Len(qs)) THEN page + 1 ELSE 0,
              !.previous = page - 1]

\* Response(serializer.data) for a sequence of rows
DataResponse(rows) == Response(200, "list", "", "", rows, "", "handler")

\* Response(serializer.data) for one row, and the empty 204 of destroy
ObjectResponse(status) == Response(status, "object", "", "", <<>>, "", "handler")

\* ListModelMixin.list: page = paginate_queryset(queryset); the page in the
\* envelope if there is one, else all rows
ListResponse(kind, qs, page) ==
    IF page # NoPage
    THEN IF page > NumPages(Len(qs))
         THEN HandleException(kind, "Http404")
         ELSE GetPaginatedResponse(qs, page)
    ELSE DataResponse(qs)

\* BookingViewSet.recent_bookings after the AnonymousUser test
RecentBookingsResponse(qs, page) ==
    IF page # NoPage
    THEN IF page > NumPages(Len(qs))
         THEN BookingHandleException("Http404")
         ELSE GetPaginatedResponse(qs, page)
    ELSE DataResponse(qs)

\* RatingViewSet.user_ratings after the AnonymousUser test: the page is
\* returned as plain serializer data
UserRatingsResponse(qs, page) ==
    IF page # NoPage
    THEN IF page > NumPages(Len(qs))
         THEN RatingHandleException("Http404")
         ELSE DataResponse(PageOf(qs, page))
    ELSE DataResponse(qs)

\* Response({'detail': 'User not known'}, status=HTTP_401_UNAUTHORIZED)
UserNotKnown ==
    Response(HTTP_401_UNAUTHORIZED, "dict", "detail", "User not known", <<>>, "", "handler")

Init ==
    /\ users = InitialUsers
    /\ pools = {}
    /\ bookings = {}
    /\ ratings = {}
    /\ files = {}
    /\ inflight = EmptyBag
    /\ last = NoRequest


(***************************************************************************)
(* Shared by the view sets: get_object and the models' constraints         *)
(***************************************************************************)
\* BookingViewSet defines no perform_create: the create of the framework
\* calls serializer.save() and passes no user, so the row is stored with the
\* user the payload names
BookingPerformCreateUser(caller, payloadUser) == payloadUser

\* Booking model: the slug derived from (user, pool) is unique
BookingUniqueViolation(rows, user, pool) ==
    \E b \in rows : b.user = user /\ b.pool = pool

\* Rating model: one rating per (user, pool)
RatingUniqueViolation(rows, user, pool) ==
    \E r \in rows : r.user = user /\ r.pool = pool

PoolExists(slug) == \E p \in pools : p.slug = slug

\* get_object: the rows the slug of (user, pool) looks up
Lookup(rows, t) == {r \in rows : r.user = t.user /\ r.pool = t.pool}

\* the exception get_object raises before the object permission is checked
LookupError(found) ==
    IF found = {} THEN "Http404"
    ELSE IF Cardinality(found) > 1 THEN "MultipleObjectsReturned"
    ELSE ""

\* the key of a row that has no user in its key
Slug(slug) == [user |-> NoUser, pool |-> slug]

(***************************************************************************)
(* PoolViewSet                                                             *)
(***************************************************************************)
PoolList(caller, page) ==
    LET perm == PoolGetPermissions("list") IN
    /\ last' = IF ~HasPermission(perm, caller)
               THEN Deny("Pool", "list", caller, NoUser, perm)
               ELSE [Allow("Pool", "list", caller, NoUser, perm,
                           ListResponse("Pool", OrderByCreatedAtDesc(pools), page))
                       EXCEPT !.page = page]
    /\ UNCHANGED <<stores, inflight>>

PoolRetrieve(caller, slug) ==
    LET perm == PoolGetPermissions("retrieve")
        found == {p \in pools : p.slug = slug}
    IN
    /\ last' = IF ~HasPermission(perm, caller)
               THEN Deny("Pool", "retrieve", caller, NoUser, perm)
               ELSE IF found = {}
               THEN Raise("Pool", "retrieve", caller, NoUser, perm, "Http404")
               ELSE Allow("Pool", "retrieve", caller, NoUser, perm, ObjectResponse(200))
    /\ UNCHANGED <<stores, inflight>>

\* perform_create: serializer.save(created_by=self.request.user); nothing is
\* read from the database before the insert
PoolCreate(caller, slug) ==
    LET perm == PoolGetPermissions("create")
        row == [slug |-> slug, createdBy |-> caller, createdAt |-> NextStamp(pools),
                updatedBy |-> NoUser]
    IN
    /\ IF ~HasPermission(perm, caller)
       THEN /\ last' = Deny("Pool", "create", caller, NoUser, perm)
            /\ UNCHANGED pools
       ELSE IF \E p \in pools : p.slug = slug
       THEN /\ last' = Raise("Pool", "create", caller, NoUser, perm, UniqueViolation)
            /\ UNCHANGED pools
       ELSE /\ pools' = pools \cup {row}
            /\ last' = Allow("Pool", "create", caller, NoUser, perm,
                             ObjectResponse(HTTP_201_CREATED))
    /\ UNCHANGED <<users, bookings, ratings, files, inflight>>

\* update and destroy, up to get_object(): the permission check and the lookup
PoolFetch(limit, caller, action, slug) ==
    LET perm == PoolGetPermissions(action)
        found == {p \in pools : p.slug = slug}
    IN
    /\ action \in WriteActions
    /\ IF ~HasPermission(perm, caller)
       THEN /\ last' = Deny("Pool", action, caller, NoUser, perm)
            /\ UNCHANGED inflight
       ELSE IF found = {}
       THEN /\ last' = Raise("Pool", action, caller, NoUser, perm, "Http404")
            /\ UNCHANGED inflight
       ELSE /\ BagCardinality(inflight) < limit
            /\ \E p \in found :
                 inflight' = inflight (+)
                     SetToBag({InFlight("Pool", action, caller, NoUser, p.createdBy, slug, 0)})
            /\ last' = NoRequest
    /\ UNCHANGED stores

\* perform_update: serializer.save(updated_by=self.request.user,
\* updated_at=timezone.now()).  Model.save() updates the row the instance was
\* read from, and inserts the instance when that row is no longer stored.
PoolUpdateSave(r) ==
    LET perm == PoolGetPermissions(r.action)
        rest == inflight (-) SetToBag({r})
        row == [slug |-> r.pool, createdBy |-> r.user, createdAt |-> NextStamp(pools),
                updatedBy |-> r.caller]
    IN
    /\ BagIn(r, inflight) /\ r.kind = "Pool" /\ r.action \in {"update", "partial_update"}
    /\ IF r.row = 0
       THEN /\ pools' = {IF p.slug = r.pool THEN [p EXCEPT !.updatedBy = r.caller] ELSE p :
                           p \in pools}
            /\ inflight' = rest
            /\ last' = Allow("Pool", r.action, r.caller, NoUser, perm, ObjectResponse(200))
       ELSE IF PoolExists(r.pool)
       THEN /\ last' = Raise("Pool", r.action, r.caller, NoUser, perm, UniqueViolation)
            /\ inflight' = rest
            /\ UNCHANGED pools
       ELSE /\ pools' = pools \cup {row}
            /\ inflight' = Restored(rest, "Pool", Slug(r.pool), r.row)
            /\ last' = Allow("Pool", r.action, r.caller, NoUser, perm, ObjectResponse(200))
    /\ UNCHANGED <<users, bookings, ratings, files>>

\* perform_destroy: instance.delete() removes the row the instance was read
\* from, if it is still stored, and the rows that reference it
PoolDestroyDelete(r) ==
    LET perm == PoolGetPermissions("destroy")
        rest == inflight (-) SetToBag({r})
        gone == IF r.row = 0 THEN {p \in pools : p.slug = r.pool} ELSE {}
        goneBookings == IF gone = {} THEN {} ELSE {b \in bookings : b.pool = r.pool}
        goneRatings == IF gone = {} THEN {} ELSE {x \in ratings : x.pool = r.pool}
    IN
    /\ BagIn(r, inflight) /\ r.kind = "Pool" /\ r.action = "destroy"
    /\ pools' = Compact(pools \ gone)
    /\ bookings' = Compact(bookings \ goneBookings)
    /\ ratings' = Compact(ratings \ goneRatings)
    /\ inflight' = IF gone = {} THEN rest
                   ELSE DeletedAll(DeletedAll(Deleted(rest, "Pool", Slug(r.pool)),
                                              "Booking", goneBookings),
                                   "Rating", goneRatings)
    /\ last' = Allow("Pool", "destroy", r.caller, NoUser, perm, ObjectResponse(204))
    /\ UNCHANGED <<users, files>>

(***************************************************************************)
(* BookingViewSet                                                          *)
(***************************************************************************)
BookingList(caller, page) ==
    LET perm == BookingGetPermissions("list") IN
    /\ last' = IF ~HasPermission(perm, caller)
               THEN Deny("Booking", "list", caller, NoUser, perm)
               ELSE [Allow("Booking", "list", caller, NoUser, perm,
                           ListResponse("Booking", OrderByCreatedAtDesc(bookings), page))
                       EXCEPT !.page = page]
    /\ UNCHANGED <<stores, inflight>>

BookingRetrieve(caller, t) ==
    LET perm == BookingGetPermissions("retrieve")
        found == Lookup(bookings, t)
    IN
    /\ last' = IF ~HasPermission(perm, caller)
               THEN Deny("Booking", "retrieve", caller, NoUser, perm)
               ELSE IF LookupError(found) # ""
               THEN Raise("Booking", "retrieve", caller, NoUser, perm, LookupError(found))
               ELSE IF ~HasObjectPermission(perm, caller, t.user)
               THEN Deny("Booking", "retrieve", caller, NoUser, perm)
               ELSE Allow("Booking", "retrieve", caller, NoUser, perm, ObjectResponse(200))
    /\ UNCHANGED <<stores, inflight>>

\* create, up to the point where the serializer is valid: the permission
\* check and the validation of the user and the pool the payload names; no
\* lookup of an existing Booking.  A request that gets this far is taken up
\* while fewer than limit requests are being served and there is room for
\* the row it may add.
BookingCreateBegin(limit, rows, caller, payloadUser, pool) ==
    LET perm == BookingGetPermissions("create")
        user == BookingPerformCreateUser(caller, payloadUser)
    IN
    /\ IF ~HasPermission(perm, caller)
       THEN /\ last' = Deny("Booking", "create", caller, payloadUser, perm)
            /\ UNCHANGED inflight
       ELSE IF payloadUser \notin users \/ ~PoolExists(pool)
       THEN /\ last' = Raise("Booking", "create", caller, payloadUser, perm,
                             "ValidationError")
            /\ UNCHANGED inflight
       ELSE /\ BagCardinality(inflight) < limit
            /\ RowCount < rows \/ BookingUniqueViolation(bookings, user, pool)
            /\ inflight' = inflight (+)
                SetToBag({InFlight("Booking", "create", caller, payloadUser,
                                   user, pool, 0)})
            /\ last' = NoRequest
    /\ UNCHANGED stores

\* create, from serializer.save() on: the insert, and handle_exception when
\* the database refuses it
BookingCreateCommit(r) ==
    LET perm == BookingGetPermissions("create")
        row == [user |-> r.user, pool |-> r.pool, createdAt |-> NextStamp(bookings),
                updatedBy |-> NoUser]
    IN
    /\ BagIn(r, inflight) /\ r.kind = "Booking" /\ r.action = "create"
    /\ inflight' = inflight (-) SetToBag({r})
    /\ IF r.ref # 0
       THEN \* the Pool row the serializer resolved is deleted
            /\ last' = Raise("Booking", "create", r.caller, r.payload, perm,
                             ForeignKeyViolation)
            /\ UNCHANGED bookings
       ELSE IF BookingUniqueViolation(bookings, r.user, r.pool)
       THEN /\ last' = Raise("Booking", "create", r.caller, r.payload, perm,
                             UniqueViolation)
            /\ UNCHANGED bookings
       ELSE /\ bookings' = bookings \cup {row}
            /\ last' = Allow("Booking", "create", r.caller, r.payload, perm,
                             ObjectResponse(HTTP_201_CREATED))
    /\ UNCHANGED <<users, pools, ratings, files>>

\* update and destroy, up to get_object(): the permission check, the lookup
\* and the object permission check
BookingFetch(limit, caller, action, t) ==
    LET perm == BookingGetPermissions(action)
        found == Lookup(bookings, t)
    IN
    /\ action \in WriteActions
    /\ IF ~HasPermission(perm, caller)
       THEN /\ last' = Deny("Booking", action, caller, NoUser, perm)
            /\ UNCHANGED inflight
       ELSE IF LookupError(found) # ""
       THEN /\ last' = Raise("Booking", action, caller, NoUser, perm, LookupError(found))
            /\ UNCHANGED inflight
       ELSE IF ~HasObjectPermission(perm, caller, t.user)
       THEN /\ last' = Deny("Booking", action, caller, NoUser, perm)
            /\ UNCHANGED inflight
       ELSE /\ BagCardinality(inflight) < limit
            /\ inflight' = inflight (+)
                SetToBag({InFlight("Booking", action, caller, NoUser, t.user, t.pool, 0)})
            /\ last' = NoRequest
    /\ UNCHANGED stores

\* perform_update: serializer.save(updated_by=self.request.user,
\* updated_at=timezone.now()); the instance is inserted when its row is gone
BookingUpdateSave(r) ==
    LET perm == BookingGetPermissions(r.action)
        rest == inflight (-) SetToBag({r})
        row == [user |-> r.user, pool |-> r.pool, createdAt |-> NextStamp(bookings),
                updatedBy |-> r.caller]
    IN
    /\ BagIn(r, inflight) /\ r.kind = "Booking" /\ r.action \in {"update", "partial_update"}
    /\ IF r.row = 0
       THEN /\ bookings' = {IF b.user = r.user /\ b.pool = r.pool
                            THEN [b EXCEPT !.updatedBy = r.caller] ELSE b : b \in bookings}
            /\ inflight' = rest
            /\ last' = Allow("Booking", r.action, r.caller, NoUser, perm, ObjectResponse(200))
       ELSE IF r.ref # 0
       THEN /\ last' = Raise("Booking", r.action, r.caller, NoUser, perm,
                             ForeignKeyViolation)
            /\ inflight' = rest
            /\ UNCHANGED bookings
       ELSE IF BookingUniqueViolation(bookings, r.user, r.pool)
       THEN /\ last' = Raise("Booking", r.action, r.caller, NoUser, perm, UniqueViolation)
            /\ inflight' = rest
            /\ UNCHANGED bookings
       ELSE /\ bookings' = bookings \cup {row}
            /\ inflight' = Restored(rest, "Booking", [user |-> r.user, pool |-> r.pool], r.row)
            /\ last' = Allow("Booking", r.action, r.caller, NoUser, perm, ObjectResponse(200))
    /\ UNCHANGED <<users, pools, ratings, files>>

\* perform_destroy: instance.delete() removes the row the instance was read
\* from if it is still stored, and the answer is 204
BookingDestroyDelete(r) ==
    LET perm == BookingGetPermissions("destroy")
        rest == inflight (-) SetToBag({r})
        gone == IF r.row = 0 THEN Lookup(bookings, [user |-> r.user, pool |-> r.pool])
                ELSE {}
    IN
    /\ BagIn(r, inflight) /\ r.kind = "Booking" /\ r.action = "destroy"
    /\ bookings' = Compact(bookings \ gone)
    /\ inflight' = DeletedAll(rest, "Booking", gone)
    /\ last' = Allow("Booking", "destroy", r.caller, NoUser, perm, ObjectResponse(204))
    /\ UNCHANGED <<users, pools, ratings, files>>

RecentBookings(caller, page) ==
    LET perm == BookingGetPermissions("recent_bookings")
        recent_bookings == OrderByCreatedAtDesc(FilterByUser(bookings, caller))
    IN
    /\ last' = IF ~HasPermission(perm, caller)
               THEN Deny("Booking", "recent_bookings", caller, NoUser, perm)
               ELSE IF caller = Anon
               THEN Allow("Booking", "recent_bookings", caller, NoUser, perm, UserNotKnown)
               ELSE [Allow("Booking", "recent_bookings", caller, NoUser, perm,
                           RecentBookingsResponse(recent_bookings, page))
                       EXCEPT !.page = page]
    /\ UNCHANGED <<stores, inflight>>

(***************************************************************************)
(* RatingViewSet                                                           *)
(***************************************************************************)
RatingList(caller, page) ==
    LET perm == RatingGetPermissions("list") IN
    /\ last' = IF ~HasPermission(perm, caller)
               THEN Deny("Rating", "list", caller, NoUser, perm)
               ELSE [Allow("Rating", "list", caller, NoUser, perm,
                           ListResponse("Rating", OrderByCreatedAtDesc(ratings), page))
                       EXCEPT !.page = page]
    /\ UNCHANGED <<stores, inflight>>

RatingRetrieve(caller, t) ==
    LET perm == RatingGetPermissions("retrieve")
        found == Lookup(ratings, t)
    IN
    /\ last' = IF ~HasPermission(perm, caller)
               THEN Deny("Rating", "retrieve", caller, NoUser, perm)
               ELSE IF LookupError(found) # ""
               THEN Raise("Rating", "retrieve", caller, NoUser, perm, LookupError(found))
               ELSE IF ~HasObjectPermission(perm, caller, t.user)
               THEN Deny("Rating", "retrieve", caller, NoUser, perm)
               ELSE Allow("Rating", "retrieve", caller, NoUser, perm, ObjectResponse(200))
    /\ UNCHANGED <<stores, inflight>>

\* perform_create: serializer.save(user=self.request.user)
RatingPerformCreateUser(caller, payloadUser) == caller

\* create, up to the point where the serializer is valid: the permission
\* check and the validation of the pool.  A request that gets this far is
\* taken up while fewer than limit requests are being served and there is
\* room for the row it may add.
RatingCreateBegin(limit, rows, caller, payloadUser, pool, value) ==
    LET perm == RatingGetPermissions("create")
        user == RatingPerformCreateUser(caller, payloadUser)
    IN
    /\ IF ~HasPermission(perm, caller)
       THEN /\ last' = Deny("Rating", "create", caller, payloadUser, perm)
            /\ UNCHANGED inflight
       ELSE IF ~PoolExists(pool)
       THEN /\ last' = Raise("Rating", "create", caller, payloadUser, perm,
                             "ValidationError")
            /\ UNCHANGED inflight
       ELSE /\ BagCardinality(inflight) < limit
            /\ \/ RowCount < rows
               \/ user = Anon
               \/ RatingUniqueViolation(ratings, user, pool)
            /\ inflight' = inflight (+)
                SetToBag({InFlight("Rating", "create", caller, payloadUser, NoUser,
                                   pool, value)})
            /\ last' = NoRequest
    /\ UNCHANGED stores

\* create, from perform_create on: the insert, and handle_exception when the
\* assignment of the user or the database refuses it
RatingCreateCommit(r) ==
    LET perm == RatingGetPermissions("create")
        user == RatingPerformCreateUser(r.caller, r.payload)
        row == [user |-> user, pool |-> r.pool, value |-> r.value,
                createdAt |-> NextStamp(ratings)]
    IN
    /\ BagIn(r, inflight) /\ r.kind = "Rating" /\ r.action = "create"
    /\ inflight' = inflight (-) SetToBag({r})
    /\ IF user = Anon
       THEN \* an AnonymousUser cannot be assigned to Rating.user
            /\ last' = Raise("Rating", "create", r.caller, r.payload, perm, "ValueError")
            /\ UNCHANGED ratings
       ELSE IF r.ref # 0
       THEN \* the Pool row the serializer resolved is deleted
            /\ last' = Raise("Rating", "create", r.caller, r.payload, perm,
                             ForeignKeyViolation)
            /\ UNCHANGED ratings
       ELSE IF RatingUniqueViolation(ratings, user, r.pool)
       THEN /\ last' = Raise("Rating", "create", r.caller, r.payload, perm,
                             UniqueViolation)
            /\ UNCHANGED ratings
       ELSE /\ ratings' = ratings \cup {row}
            /\ last' = Allow("Rating", "create", r.caller, r.payload, perm,
                             ObjectResponse(HTTP_201_CREATED))
    /\ UNCHANGED <<users, pools, bookings, files>>

\* update and destroy, up to get_object(): the permission check, the lookup
\* and the object permission check; value is the value an update carries
RatingFetch(limit, caller, action, t, value) ==
    LET perm == RatingGetPermissions(action)
        found == Lookup(ratings, t)
        v == IF action = "destroy" THEN 0 ELSE value
    IN
    /\ action \in WriteActions
    /\ IF ~HasPermission(perm, caller)
       THEN /\ last' = Deny("Rating", action, caller, NoUser, perm)
            /\ UNCHANGED inflight
       ELSE IF LookupError(found) # ""
       THEN /\ last' = Raise("Rating", action, caller, NoUser, perm, LookupError(found))
            /\ UNCHANGED inflight
       ELSE IF ~HasObjectPermission(perm, caller, t.user)
       THEN /\ last' = Deny("Rating", action, caller, NoUser, perm)
            /\ UNCHANGED inflight
       ELSE /\ BagCardinality(inflight) < limit
            /\ inflight' = inflight (+)
                SetToBag({InFlight("Rating", action, caller, NoUser, t.user, t.pool, v)})
            /\ last' = NoRequest
    /\ UNCHANGED stores

\* perform_update of the framework: serializer.save(); the instance is
\* inserted when its row is gone
RatingUpdateSave(r) ==
    LET perm == RatingGetPermissions(r.action)
        rest == inflight (-) SetToBag({r})
        row == [user |-> r.user, pool |-> r.pool, value |-> r.value,
                createdAt |-> NextStamp(ratings)]
    IN
    /\ BagIn(r, inflight) /\ r.kind = "Rating" /\ r.action \in {"update", "partial_update"}
    /\ IF r.row = 0
       THEN /\ ratings' = {IF x.user = r.user /\ x.pool = r.pool
                           THEN [x EXCEPT !.value = r.value] ELSE x : x \in ratings}
            /\ inflight' = rest
            /\ last' = Allow("Rating", r.action, r.caller, NoUser, perm, ObjectResponse(200))
       ELSE IF r.ref # 0
       THEN /\ last' = Raise("Rating", r.action, r.caller, NoUser, perm,
                             ForeignKeyViolation)
            /\ inflight' = rest
            /\ UNCHANGED ratings
       ELSE IF RatingUniqueViolation(ratings, r.user, r.pool)
       THEN /\ last' = Raise("Rating", r.action, r.caller, NoUser, perm, UniqueViolation)
            /\ inflight' = rest
            /\ UNCHANGED ratings
       ELSE /\ ratings' = ratings \cup {row}
            /\ inflight' = Restored(rest, "Rating", [user |-> r.user, pool |-> r.pool], r.row)
            /\ last' = Allow("Rating", r.action, r.caller, NoUser, perm, ObjectResponse(200))
    /\ UNCHANGED <<users, pools, bookings, files>>

RatingDestroyDelete(r) ==
    LET perm == RatingGetPermissions("destroy")
        rest == inflight (-) SetToBag({r})
        gone == IF r.row = 0 THEN Lookup(ratings, [user |-> r.user, pool |-> r.pool])
                ELSE {}
    IN
    /\ BagIn(r, inflight) /\ r.kind = "Rating" /\ r.action = "destroy"
    /\ ratings' = Compact(ratings \ gone)
    /\ inflight' = DeletedAll(rest, "Rating", gone)
    /\ last' = Allow("Rating", "destroy", r.caller, NoUser, perm, ObjectResponse(204))
    /\ UNCHANGED <<users, pools, bookings, files>>

UserRatings(caller, page) ==
    LET perm == RatingGetPermissions("user_ratings")
        user_ratings == OrderByCreatedAtDesc(FilterByUser(ratings, caller))
    IN
    /\ last' = IF ~HasPermission(perm, caller)
               THEN Deny("Rating", "user_ratings", caller, NoUser, perm)
               ELSE IF caller = Anon
               THEN Allow("Rating", "user_ratings", caller, NoUser, perm, UserNotKnown)
               ELSE [Allow("Rating", "user_ratings", caller, NoUser, perm,
                           UserRatingsResponse(user_ratings, page))
                       EXCEPT !.page = page]
    /\ UNCHANGED <<stores, inflight>>

(***************************************************************************)
(* RegisterAPIView and UserViewSet                                         *)
(***************************************************************************)
RECURSIVE UsersInOrder(_)
UsersInOrder(ids) ==
    IF ids = {} THEN <<>>
    ELSE LET first == CHOOSE u \in ids : TRUE
         IN <<[user |-> first]>> \o UsersInOrder(ids \ {first})

\* create, up to the point where the serializer is valid: a name that is
\* stored already is a validation error
RegisterBegin(limit, id) ==
    /\ IF id \in users
       THEN /\ last' = Raise("User", "register", Anon, id, RegisterPermissions,
                             "ValidationError")
            /\ UNCHANGED inflight
       ELSE /\ BagCardinality(inflight) < limit
            /\ inflight' = inflight (+)
                SetToBag({InFlight("User", "register", Anon, id, id, "", 0)})
            /\ last' = NoRequest
    /\ UNCHANGED stores

\* super().create(), from the insert on; RegisterAPIView has no
\* handle_exception of its own.  After the insert the request goes on to
\* read the user back.
RegisterInsert(r) ==
    /\ BagIn(r, inflight) /\ r.kind = "User" /\ r.action = "register"
    /\ IF r.user \in users
       THEN /\ inflight' = inflight (-) SetToBag({r})
            /\ last' = Raise("User", "register", Anon, r.user, RegisterPermissions,
                             UniqueViolation)
            /\ UNCHANGED users
       ELSE /\ users' = users \cup {r.user}
            /\ inflight' = (inflight (-) SetToBag({r}))
                             (+) SetToBag({[r EXCEPT !.action = "registered"]})
            /\ last' = NoRequest
    /\ UNCHANGED <<pools, bookings, ratings, files>>

\* UserSerializer: the id the response data of a created user carry
UserSerializerId(id) == id

\* user = User.objects.get(id=response.data.get('id')), the token pair and
\* the Response with status 201
RegisterRespond(r) ==
    /\ BagIn(r, inflight) /\ r.kind = "User" /\ r.action = "registered"
    /\ inflight' = inflight (-) SetToBag({r})
    /\ last' = IF UserSerializerId(r.user) \notin users
               THEN Raise("User", "register", Anon, r.user, RegisterPermissions,
                          "DoesNotExist")
               ELSE Allow("User", "register", Anon, r.user, RegisterPermissions,
                          Response(HTTP_201_CREATED, "dict", "message",
                                   "User registered successfully", <<>>, "", "handler"))
    /\ UNCHANGED stores

UserList(caller, page) ==
    LET perm == UserGetPermissions("list") IN
    /\ last' = IF ~HasPermission(perm, caller)
               THEN Deny("User", "list", caller, NoUser, perm)
               ELSE [Allow("User", "list", caller, NoUser, perm,
                           ListResponse("User", UsersInOrder(users), page))
                       EXCEPT !.page = page]
    /\ UNCHANGED <<stores, inflight>>

UserRetrieve(caller, id) ==
    LET perm == UserGetPermissions("retrieve") IN
    /\ last' = IF ~HasPermission(perm, caller)
               THEN Deny("User", "retrieve", caller, NoUser, perm)
               ELSE IF id \notin users
               THEN Raise("User", "retrieve", caller, NoUser, perm, "Http404")
               ELSE Allow("User", "retrieve", caller, NoUser, perm, ObjectResponse(200))
    /\ UNCHANGED <<stores, inflight>>

(***************************************************************************)
(* FileUploadView: permission_classes = [IsAdminUser] for every action     *)
(***************************************************************************)
\* list, create and retrieve: one database access each.  An id is given to
\* one row only, so no instance in flight knows the id of a new row.
FileUpload(rows, caller, action, f, page) ==
    LET perm == FileUploadPermissions(action)
        found == {x \in files : x.id = f}
        row == [id |-> f, createdAt |-> NextStamp(files)]
    IN
    /\ action \in {"list", "create", "retrieve"}
    /\ action # "list" => page = NoPage
    /\ IF ~HasPermission(perm, caller)
       THEN /\ last' = Deny("FileUpload", action, caller, NoUser, perm)
            /\ UNCHANGED files
       ELSE IF action = "create"
       THEN \* the row gets an id no row has had, while there is room for it
            /\ RowCount < rows /\ found = {}
            /\ \A r \in BagToSet(inflight) : ~Holds(r, "FileUpload", Slug(f))
            /\ files' = files \cup {row}
            /\ last' = Allow("FileUpload", action, caller, NoUser, perm,
                             ObjectResponse(HTTP_201_CREATED))
       ELSE IF action = "list"
       THEN /\ last' = [Allow("FileUpload", action, caller, NoUser, perm,
                              ListResponse("FileUpload", OrderByCreatedAtDesc(files), page))
                          EXCEPT !.page = page]
            /\ UNCHANGED files
       ELSE IF found = {}
       THEN /\ last' = Raise("FileUpload", action, caller, NoUser, perm, "Http404")
            /\ UNCHANGED files
       ELSE /\ last' = Allow("FileUpload", action, caller, NoUser, perm, ObjectResponse(200))
            /\ UNCHANGED files
    /\ UNCHANGED <<users, pools, bookings, ratings, inflight>>

\* update and destroy, up to get_object()
FileUploadFetch(limit, caller, action, f) ==
    LET perm == FileUploadPermissions(action)
        found == {x \in files : x.id = f}
    IN
    /\ action \in WriteActions
    /\ IF ~HasPermission(perm, caller)
       THEN /\ last' = Deny("FileUpload", action, caller, NoUser, perm)
            /\ UNCHANGED inflight
       ELSE IF found = {}
       THEN /\ last' = Raise("FileUpload", action, caller, NoUser, perm, "Http404")
            /\ UNCHANGED inflight
       ELSE /\ BagCardinality(inflight) < limit
            /\ inflight' = inflight (+)
                SetToBag({InFlight("FileUpload", action, caller, NoUser, NoUser, f, 0)})
            /\ last' = NoRequest
    /\ UNCHANGED stores

\* update and destroy, from the save or the delete on
FileUploadWrite(r) ==
    LET perm == FileUploadPermissions(r.action)
        rest == inflight (-) SetToBag({r})
        found == {x \in files : x.id = r.pool}
        row == [id |-> r.pool, createdAt |-> NextStamp(files)]
    IN
    /\ BagIn(r, inflight) /\ r.kind = "FileUpload"
    /\ IF r.action = "destroy"
       THEN /\ files' = IF r.row = 0 THEN Compact(files \ found) ELSE files
            /\ inflight' = IF r.row = 0 THEN Deleted(rest, "FileUpload", Slug(r.pool))
                           ELSE rest
            /\ last' = Allow("FileUpload", r.action, r.caller, NoUser, perm,
                             ObjectResponse(204))
       ELSE /\ files' = IF r.row = 0 THEN files ELSE files \cup {row}
            /\ inflight' = IF r.row = 0 THEN rest
                           ELSE Restored(rest, "FileUpload", Slug(r.pool), r.row)
            /\ last' = Allow("FileUpload", r.action, r.caller, NoUser, perm,
                             ObjectResponse(200))
    /\ UNCHANGED <<users, pools, bookings, ratings>>

(***************************************************************************)
(* The requests any caller can send, in any order.                         *)
(*                                                                         *)
(* Spec sends the requests of every view set, about one pool and one at a  *)
(* time.  SpecBooking and SpecRating send the requests of one view set,    *)
(* and the registration and pool creation they need, one at a time.        *)
(* SpecPool, SpecRace and SpecRatingRace send the writes of Pools, of      *)
(* Bookings and of Ratings, up to MaxInflight of them between their two    *)
(* database accesses at once; the last two send them about one pool, and   *)
(* with them the destroy of that pool.                                     *)
(***************************************************************************)
OnePool == {"p1"}
FirstPages == {NoPage, 1}
OneValue == {v \in RatingValues : \A w \in RatingValues : v <= w}
UpdateActions == {"update", "partial_update"}
Targets(P) == {Target(u, p) : u \in UserIds, p \in P}

Next ==
    \/ \E c \in Callers, g \in FirstPages : PoolList(c, g)
    \/ \E c \in Callers, p \in OnePool : PoolRetrieve(c, p)
    \/ \E c \in Callers, p \in OnePool : PoolCreate(c, p)
    \/ \E c \in Callers, a \in WriteActions, p \in OnePool : PoolFetch(1, c, a, p)
    \/ \E r \in BagToSet(inflight) : PoolUpdateSave(r)
    \/ \E r \in BagToSet(inflight) : PoolDestroyDelete(r)
    \/ \E c \in Callers, g \in FirstPages : BookingList(c, g)
    \/ \E c \in Callers, t \in Targets(OnePool) : BookingRetrieve(c, t)
    \/ \E c \in Callers, u \in UserIds, p \in OnePool :
          BookingCreateBegin(1, FewRows, c, u, p)
    \/ \E r \in BagToSet(inflight) : BookingCreateCommit(r)
    \/ \E c \in Callers, a \in WriteActions, t \in Targets(OnePool) : BookingFetch(1, c, a, t)
    \/ \E r \in BagToSet(inflight) : BookingUpdateSave(r)
    \/ \E r \in BagToSet(inflight) : BookingDestroyDelete(r)
    \/ \E c \in Callers, g \in FirstPages : RecentBookings(c, g)
    \/ \E c \in Callers, g \in FirstPages : RatingList(c, g)
    \/ \E c \in Callers, t \in Targets(OnePool) : RatingRetrieve(c, t)
    \/ \E c \in Callers, u \in InitialUsers, p \in OnePool, v \in OneValue :
          RatingCreateBegin(1, FewRows, c, u, p, v)
    \/ \E r \in BagToSet(inflight) : RatingCreateCommit(r)
    \/ \E c \in Callers, a \in WriteActions, t \in Targets(OnePool),
          v \in RatingValues \ OneValue :
             RatingFetch(1, c, a, t, v)
    \/ \E r \in BagToSet(inflight) : RatingUpdateSave(r)
    \/ \E r \in BagToSet(inflight) : RatingDestroyDelete(r)
    \/ \E c \in Callers, g \in FirstPages : UserRatings(c, g)
    \/ \E u \in UserIds : RegisterBegin(1, u)
    \/ \E r \in BagToSet(inflight) : RegisterInsert(r)
    \/ \E r \in BagToSet(inflight) : RegisterRespond(r)
    \/ \E c \in Callers, g \in FirstPages : UserList(c, g)
    \/ \E c \in Callers, u \in UserIds : UserRetrieve(c, u)
    \/ \E c \in Callers, a \in {"list", "create", "retrieve"}, f \in FileIds, g \in FirstPages :
          FileUpload(FewRows, c, a, f, g)
    \/ \E c \in Callers, a \in WriteActions, f \in FileIds : FileUploadFetch(1, c, a, f)
    \/ \E r \in BagToSet(inflight) : FileUploadWrite(r)

Spec == Init /\ [][Next]_vars

NextPool ==
    \/ \E u \in UserIds : RegisterBegin(MaxInflight, u)
    \/ \E r \in BagToSet(inflight) : RegisterInsert(r)
    \/ \E r \in BagToSet(inflight) : RegisterRespond(r)
    \/ \E c \in Callers, g \in Pages : PoolList(c, g)
    \/ \E c \in Callers, p \in PoolSlugs : PoolRetrieve(c, p)
    \/ \E c \in Callers, p \in PoolSlugs : PoolCreate(c, p)
    \/ \E c \in Callers, a \in WriteActions, p \in PoolSlugs :
          PoolFetch(MaxInflight, c, a, p)
    \/ \E r \in BagToSet(inflight) : PoolUpdateSave(r)
    \/ \E r \in BagToSet(inflight) : PoolDestroyDelete(r)

SpecPool == Init /\ [][NextPool]_vars

NextBooking ==
    \/ \E u \in UserIds : RegisterBegin(1, u)
    \/ \E r \in BagToSet(inflight) : RegisterInsert(r)
    \/ \E r \in BagToSet(inflight) : RegisterRespond(r)
    \/ \E c \in Callers, p \in PoolSlugs : PoolCreate(c, p)
    \/ \E c \in Callers, g \in FirstPages : BookingList(c, g)
    \/ \E c \in Callers, t \in Targets(PoolSlugs) : BookingRetrieve(c, t)
    \/ \E c \in Callers, u \in UserIds, p \in PoolSlugs :
          BookingCreateBegin(1, MaxRows, c, u, p)
    \/ \E r \in BagToSet(inflight) : BookingCreateCommit(r)
    \/ \E c \in Callers, a \in WriteActions, t \in Targets(PoolSlugs) :
          BookingFetch(1, c, a, t)
    \/ \E r \in BagToSet(inflight) : BookingUpdateSave(r)
    \/ \E r \in BagToSet(inflight) : BookingDestroyDelete(r)
    \/ \E c \in Callers, g \in Pages : RecentBookings(c, g)

SpecBooking == Init /\ [][NextBooking]_vars

NextRating ==
    \/ \E u \in UserIds : RegisterBegin(1, u)
    \/ \E r \in BagToSet(inflight) : RegisterInsert(r)
    \/ \E r \in BagToSet(inflight) : RegisterRespond(r)
    \/ \E c \in Callers, p \in PoolSlugs : PoolCreate(c, p)
    \/ \E c \in Callers, g \in FirstPages : RatingList(c, g)
    \/ \E c \in Callers, t \in Targets(PoolSlugs) : RatingRetrieve(c, t)
    \/ \E c \in Callers, u \in InitialUsers, p \in PoolSlugs, v \in OneValue :
          RatingCreateBegin(1, FewRows, c, u, p, v)
    \/ \E r \in BagToSet(inflight) : RatingCreateCommit(r)
    \/ \E c \in Callers, a \in WriteActions, t \in Targets(PoolSlugs), v \in RatingValues :
          RatingFetch(1, c, a, t, v)
    \/ \E r \in BagToSet(inflight) : RatingUpdateSave(r)
    \/ \E r \in BagToSet(inflight) : RatingDestroyDelete(r)
    \/ \E c \in Callers, g \in Pages : UserRatings(c, g)

SpecRating == Init /\ [][NextRating]_vars

NextRace ==
    \/ \E u \in UserIds : RegisterBegin(1, u)
    \/ \E r \in BagToSet(inflight) : RegisterInsert(r)
    \/ \E r \in BagToSet(inflight) : RegisterRespond(r)
    \/ \E c \in Callers, p \in OnePool : PoolCreate(c, p)
    \/ \E c \in Callers, p \in OnePool : PoolFetch(MaxInflight, c, "destroy", p)
    \/ \E r \in BagToSet(inflight) : PoolDestroyDelete(r)
    \/ \E c \in Callers, u \in UserIds, p \in OnePool :
          BookingCreateBegin(MaxInflight, MaxRows, c, u, p)
    \/ \E r \in BagToSet(inflight) : BookingCreateCommit(r)
    \/ \E c \in Callers, a \in {"update", "destroy"}, t \in Targets(OnePool) :
          BookingFetch(MaxInflight, c, a, t)
    \/ \E r \in BagToSet(inflight) : BookingUpdateSave(r)
    \/ \E r \in BagToSet(inflight) : BookingDestroyDelete(r)

SpecRace == Init /\ [][NextRace]_vars

NextRatingRace ==
    \/ \E u \in UserIds : RegisterBegin(1, u)
    \/ \E r \in BagToSet(inflight) : RegisterInsert(r)
    \/ \E r \in BagToSet(inflight) : RegisterRespond(r)
    \/ \E c \in Callers, p \in OnePool : PoolCreate(c, p)
    \/ \E c \in Callers, p \in OnePool : PoolFetch(MaxInflight, c, "destroy", p)
    \/ \E r \in BagToSet(inflight) : PoolDestroyDelete(r)
    \/ \E c \in Callers, u \in InitialUsers, p \in OnePool, v \in OneValue :
          RatingCreateBegin(MaxInflight, FewRows, c, u, p, v)
    \/ \E r \in BagToSet(inflight) : RatingCreateCommit(r)
    \/ \E c \in Callers, a \in {"update", "destroy"}, t \in Targets(OnePool),
          v \in RatingValues \ OneValue :
             RatingFetch(MaxInflight, c, a, t, v)
    \/ \E r \in BagToSet(inflight) : RatingUpdateSave(r)
    \/ \E r \in BagToSet(inflight) : RatingDestroyDelete(r)

SpecRatingRace == Init /\ [][NextRatingRace]_vars

(***************************************************************************)
(* Properties                                                              *)
(***************************************************************************)
Admin(caller) == caller # Anon /\ IsStaff(caller)

\* C1: for a Booking request, 'list' is allowed exactly to admin callers,
\* 'create' is denied exactly to anonymous callers, and every other action is
\* under the owner-only rule; an authenticated non-admin never lists all.
C1_BookingAccess ==
    last.kind = "Booking" =>
        /\ last.action = "list" =>
              /\ last.decision = "allow" <=> Admin(last.caller)
              /\ last.resp.status = 200 => Admin(last.caller)
        /\ last.action = "create" => (last.decision = "deny" <=> last.caller = Anon)
        /\ last.action \notin {"list", "create"} => last.perm = IsOwner

C1_Witness ==
    /\ last.kind = "Booking" /\ last.action = "list"
    /\ last.caller = "u1" /\ last.decision = "deny" /\ last.resp.status = 403
    /\ bookings # {}

\* C2: every stored Pool was created by an admin and updated only by admins,
\* every step that changes the Pools is a Pool request of an admin, and no
\* caller is denied list or retrieve of Pools.
C2_PoolsAdminOnly ==
    [][ /\ \A p \in pools' :
             /\ Admin(p.createdBy)
             /\ p.updatedBy # NoUser => Admin(p.updatedBy)
        /\ pools' # pools =>
             /\ last'.kind = "Pool"
             /\ last'.action \in {"create", "update", "partial_update", "destroy"}
             /\ Admin(last'.caller)
        /\ (last'.kind = "Pool" /\ last'.action \in {"list", "retrieve"}) =>
             last'.decision = "allow" ]_vars

C2_Witness ==
    /\ \E p \in pools : p.updatedBy = "admin"
    /\ last.kind = "Pool" /\ last.action = "retrieve"
    /\ last.caller = Anon /\ last.resp.status = 200

\* C3: the rule a Rating request is checked against is admin-only exactly for
\* 'list' and owner-only for every other action, 'create' included; a rule is
\* selected for every action.
C3_RatingRule ==
    /\ \A a \in RatingActions :
          RatingGetPermissions(a) = IF a = "list" THEN IsAdminUser ELSE IsOwner
    /\ last.kind = "Rating" =>
          /\ last.perm \in {IsAdminUser, IsOwner}
          /\ last.perm = IsAdminUser <=> last.action = "list"
          /\ last.action = "create" => last.perm = IsOwner /\ last.perm # IsAuthenticated

C3_Witness ==
    /\ last.kind = "Rating" /\ last.action = "create"
    /\ last.perm = IsOwner /\ last.resp.status = HTTP_201_CREATED

\* C4: a Booking create refused for the uniqueness of (user, pool) is answered
\* with 400 and the body {"Integrity error": "You have already booked this
\* pool. Request an update if required"}.
C4_ConflictBody ==
    (/\ last.kind = "Booking" /\ last.action = "create"
     /\ last.resp.exc = UniqueViolation
     /\ \E b \in bookings : b.user = last.payload) =>
        /\ last.resp.status = 400
        /\ last.resp.shape = "dict"
        /\ last.resp.key = "Integrity error"
        /\ last.resp.text = "You have already booked this pool. Request an update if required"

\* C5: a Rating write refused for the uniqueness of (user, pool) is answered
\* with 400 and the body {"Integrity Error": "Already rated! request update to
\* make changes"}, a key that differs from the Booking one; a failure that is
\* not a uniqueness violation gets the response of the generic handler for
\* that same exception.
C5_RatingConflict ==
    last.kind = "Rating" =>
        /\ last.resp.exc = UniqueViolation =>
              /\ last.resp.status = 400
              /\ last.resp.shape = "dict"
              /\ last.resp.key = "Integrity Error"
              /\ last.resp.key # BookingHandleException(UniqueViolation).key
              /\ last.resp.text = "Already rated! request update to make changes"
        /\ last.resp.exc \notin {"", UniqueViolation} =>
              /\ last.resp.via = "generic"
              /\ last.resp = SuperHandleException(last.resp.exc)

\* C6: a Booking create or a Rating create answered 201 stores a row whose
\* user is the caller of the request, whatever user the payload named.
C6_CreatedForCaller ==
    [][ (last'.action = "create" /\ last'.resp.status = 201) =>
           /\ last'.kind = "Booking" =>
                 \A b \in bookings' \ bookings : b.user = last'.caller
           /\ last'.kind = "Rating" =>
                 \A r \in ratings' \ ratings : r.user = last'.caller ]_vars

\* C7: no two stored Bookings share (user, pool), and a create that reaches
\* the database when its pair is already stored adds nothing and is answered
\* with the Booking conflict response, status 400.
C7_OneBookingPerPair ==
    [][ /\ \A b1, b2 \in bookings' :
             (b1.user = b2.user /\ b1.pool = b2.pool) => b1 = b2
        /\ \A r \in BagToSet(inflight) :
             (/\ r.action = "create" /\ r.kind = "Booking"
              /\ last'.kind = "Booking" /\ last'.action = "create"
              /\ inflight' = inflight (-) SetToBag({r})
              /\ \E b \in bookings : b.user = r.user /\ b.pool = r.pool) =>
                /\ bookings' = bookings
                /\ last'.caller = r.caller
                /\ last'.resp.status = 400
                /\ last'.resp.key = "Integrity error"
                /\ last'.resp.via = "translator" ]_vars

C7_Witness ==
    /\ last.kind = "Booking" /\ last.action = "create"
    /\ last.resp.exc = UniqueViolation /\ last.resp.status = 400
    /\ last.resp.via = "translator"
    /\ Cardinality(bookings) = 1
    /\ \A b \in bookings : b.user = last.caller /\ b.createdAt = 1

\* C8: a request that is denied is answered 401 or 403 and leaves the stored
\* Users, Pools, Bookings, Ratings and FileUploads as they were.
C8_DenyHasNoEffect ==
    [][ last'.decision = "deny" =>
           /\ last'.resp.status \in {401, 403}
           /\ stores' = stores ]_vars

C8_Witness ==
    /\ last.decision = "deny" /\ last.kind = "Booking" /\ last.action = "create"
    /\ last.caller = Anon /\ last.resp.status = 401
    /\ \E b \in bookings : b.user = "u1"
    /\ \E r \in BagToSet(inflight) : r.kind = "Booking" /\ r.action = "destroy"

(***************************************************************************)
(* recent_bookings                                                         *)
(***************************************************************************)
Own == {b \in bookings : b.user = last.caller}
Items == {last.resp.items[i] : i \in 1..Len(last.resp.items)}
NewestFirst ==
    \A i, j \in 1..Len(last.resp.items) :
        i < j => last.resp.items[i].createdAt > last.resp.items[j].createdAt
\* the place of a Booking among the caller's Bookings, the newest first
Rank(b) == 1 + Cardinality({o \in Own : o.createdAt > b.createdAt})

\* C9 as stated: an anonymous caller gets 401 and no Bookings, an authenticated
\* caller gets all of their Bookings and no others, newest first.
C9_AllOwnBookings ==
    (last.kind = "Booking" /\ last.action = "recent_bookings") =>
        IF last.caller = Anon
        THEN last.resp.status = 401 /\ last.resp.items = <<>>
        ELSE last.resp.status = 200 =>
                Items = Own /\ Len(last.resp.items) = Cardinality(Own) /\ NewestFirst

\* C9 amended: an anonymous caller gets 401 and no Bookings; an authenticated
\* caller gets only their own Bookings, newest first: all of them when no page
\* is requested, the rows of the requested page of that sequence (with the
\* count of all of them) when it exists, and 404 with no rows when it does not.
C9_OwnBookingsPaged ==
    (last.kind = "Booking" /\ last.action = "recent_bookings") =>
        IF last.caller = Anon
        THEN last.resp.status = 401 /\ last.resp.items = <<>>
        ELSE /\ Items \subseteq Own
             /\ NewestFirst
             /\ Len(last.resp.items) = Cardinality(Items)
             /\ last.page = NoPage =>
                   last.resp.status = 200 /\ Items = Own
             /\ last.page # NoPage =>
                   IF last.page > NumPages(Cardinality(Own))
                   THEN last.resp.status = 404 /\ Items = {}
                   ELSE /\ last.resp.status = 200
                        /\ last.resp.count = Cardinality(Own)
                        /\ Items = {b \in Own :
                                      /\ Rank(b) > (last.page - 1) * PageSize
                                      /\ Rank(b) <= last.page * PageSize}

C9_Witness ==
    /\ last.kind = "Booking" /\ last.action = "recent_bookings"
    /\ last.caller = "u1" /\ last.page = 1 /\ last.resp.status = 200
    /\ Len(last.resp.items) >= 1
    /\ Cardinality(Own) >= 2

\* C10: recent_bookings and user_ratings answer a request for a page with the
\* envelope {count, next, previous, results}, and a request without a page
\* with the full sequence, newest first.
C10_Envelope ==
    (/\ last.action \in {"recent_bookings", "user_ratings"}
     /\ last.caller # Anon /\ last.resp.status = 200) =>
        IF last.page # NoPage
        THEN last.resp.shape = "envelope"
        ELSE last.resp.shape = "list" /\ NewestFirst

====
